---- MODULE Spec2Model ----
(***************************************************************************)
(* NDJsonSourceBuilder / NDJsonSource (common/streams, source_ndjson.rs):  *)
(* the builder's setters and build, and the source's read(), which turns   *)
(* the lines of a reader into blocks of at most block_size rows under a    *)
(* cumulative size_limit.                                                  *)
(***************************************************************************)
EXTENDS Integers, Sequences, FiniteSets, TLC

\* ------------------------------------------------------------------ bounds
\* Longest input stream (reader outcomes: lines and I/O failures).
MaxLines == 3
\* Largest block_size / size_limit handed to the setters.
MaxBlock == 2
MaxLimit == 2
\* read() calls made on one source: enough to see exhaustion repeated.
MaxCalls == MaxLines + 1

\* --------------------------------------------------------- program constants
\* block_size: 10000 in create.
DefaultBlockSize == 10000
\* size_limit: usize::MAX in create. The counter never comes near it (it grows
\* by one per line read), so the width plays no part; TLC's largest integer
\* stands for it.
UsizeMax == 2147483647
\* maybe_truncated(&value_str, 1024)
TruncateLimit == 1024

\* ---------------------------------------------------------------- strings
\* A column name or a JSON key is a sequence of characters.
\* char::to_lowercase over the letters that occur.
LowerChar(c) ==
    CASE c = "I" -> "i"
      [] c = "D" -> "d"
      [] c = "N" -> "n"
      [] OTHER -> c

\* str::to_lowercase: character by character.
ToLowercase(s) == [i \in DOMAIN s |-> LowerChar(s[i])]

\* ------------------------------------------------------------ JSON values
\* serde_json::Value: t is the variant, s the scalar's text, m the object's
\* entries <<key, value>> in the map's iteration order, keys distinct.
Null == [t |-> "null", s |-> "", m |-> <<>>]
Number(x) == [t |-> "number", s |-> x, m |-> <<>>]
String(x) == [t |-> "string", s |-> x, m |-> <<>>]
Object(entries) == [t |-> "object", s |-> "", m |-> entries]
Bool(x) == [t |-> "bool", s |-> x, m |-> <<>>]
\* An array keeps its items as entries <<index, value>>.
Array(items) == [t |-> "array", s |-> "", m |-> [j \in DOMAIN items |-> <<j, items[j]>>]]

\* Map::insert: a key already present keeps its place and takes the new value.
MapInsert(m, k, v) ==
    IF \E i \in DOMAIN m : m[i][1] = k
    THEN [i \in DOMAIN m |-> IF m[i][1] = k THEN <<k, v>> ELSE m[i]]
    ELSE Append(m, <<k, v>>)

\* x.into_iter().map(|(k, v)| (k.to_lowercase(), v)).collect(): the entries are
\* inserted in iteration order under their lowercased keys.
RECURSIVE LowercaseKeysFrom(_, _, _)
LowercaseKeysFrom(m, i, acc) ==
    IF i > Len(m) THEN acc
    ELSE LowercaseKeysFrom(m, i + 1, MapInsert(acc, ToLowercase(m[i][1]), m[i][2]))

\* Lines 154-159: only an object is rebuilt; any other value is left as it is.
CaseFold(json, ident_case_sensitive) ==
    IF ~ident_case_sensitive /\ json.t = "object"
    THEN Object(LowercaseKeysFrom(json.m, 1, <<>>))
    ELSE json

\* Mutant: a value that is no object is handed on itself.
JsonIndexOrSelf(json, key) ==
    IF json.t # "object" THEN json
    ELSE IF \E i \in DOMAIN json.m : json.m[i][1] = key
    THEN json.m[CHOOSE i \in DOMAIN json.m : json.m[i][1] = key][2]
    ELSE Null

\* &json[key] (serde_json Index<&str>): the entry's value; Null for a key that
\* is absent and for a value that is no object.
JsonIndex(json, key) ==
    IF json.t = "object" /\ \E i \in DOMAIN json.m : json.m[i][1] = key
    THEN json.m[CHOOSE i \in DOMAIN json.m : json.m[i][1] = key][2]
    ELSE Null

\* Mutant: the column name is looked up as written in both modes.
LookupNameVerbatim(json, name, ident_case_sensitive) == JsonIndex(json, name)

\* Lines 162-166: the value handed to the field's deserializer.
LookupValue(json, name, ident_case_sensitive) ==
    IF ident_case_sensitive
    THEN JsonIndex(json, name)
    ELSE JsonIndex(json, ToLowercase(name))

\* ------------------------------------------------------------ the schema
\* DataField: name() and data_type(); a data type has its name() and decides
\* what its deserializer accepts.
Field(name, type_name, base, nullable) ==
    [name |-> name, type_name |-> type_name, base |-> base, nullable |-> nullable]

ColId == <<"I", "d">>
ColName == <<"n", "a", "m", "e">>

\* The schema handed to create: ("Id", Int64), ("name", Nullable(String)).
SchemaIdName ==
    << Field(ColId, "Int64", "number", FALSE),
       Field(ColName, "Nullable(String)", "string", TRUE) >>
Schemas == {SchemaIdName}

\* TypeDeserializer::de_json: whether the column's deserializer takes the
\* value (a number for Int64, a string for String, and null besides for a
\* Nullable type); it appends the value when it does.
DeJsonAccepts(field, value) ==
    \/ value.t = field.base
    \/ field.nullable /\ value.t = "null"

\* Mutant: column builders that already hold a value.
CreateDeserializersUsed(schema) == [i \in DOMAIN schema |-> <<Null>>]

\* create_deserializer for every field: empty column builders.
CreateDeserializers(schema) == [i \in DOMAIN schema |-> <<>>]

\* ------------------------------------------------------------ the reader
\* What one read_line call meets: a line of the stream or a failing read.
\*   ws   : a line of n whitespace characters and its newline (n = 0: empty)
\*   junk : a non-blank line that is not JSON
\*   json : a line holding the JSON document v
\*   ioerr: the underlying read fails
WsLine(n) == [k |-> "ws", n |-> n, v |-> Null]
JunkLine == [k |-> "junk", n |-> 0, v |-> Null]
JsonLine(v) == [k |-> "json", n |-> 0, v |-> v]
IoFailure == [k |-> "ioerr", n |-> 0, v |-> Null]
\* String::new() / buffer.clear()
EmptyBuffer == [k |-> "empty", n |-> 0, v |-> Null]

\* Mutant: is_empty() without the trim.
IsEmptyUntrimmed(buffer) == buffer.k = "empty"

\* Mutant: a line that is not JSON is skipped like a blank one.
TrimIsEmptyOrJunk(buffer) == buffer.k \in {"ws", "empty", "junk"}

\* self.buffer.trim().is_empty()
TrimIsEmpty(buffer) == buffer.k \in {"ws", "empty"}

\* serde_json::from_reader(self.buffer.as_bytes())
ParseOk(buffer) == buffer.k = "json"

\* ------------------------------------------------------------------ text
\* A str as the pieces it is made of, each n characters of w bytes: a literal
\* piece of ASCII text c (its first n bytes), the decimal digits of k, or one
\* character c repeated n times.
Lit(c, n) == [c |-> c, k |-> 0, w |-> 1, n |-> n, rep |-> FALSE]
Repeat(c, w, n) == [c |-> c, k |-> 0, w |-> w, n |-> n, rep |-> TRUE]

RECURSIVE Digits(_)
Digits(k) == IF k < 10 THEN 1 ELSE 1 + Digits(k \div 10)

\* {} of a usize.
Decimal(k) == [c |-> "decimal", k |-> k, w |-> 1, n |-> Digits(k), rep |-> FALSE]

\* str::len: the length in bytes.
RECURSIVE ByteLen(_)
ByteLen(text) ==
    IF text = <<>> THEN 0 ELSE Head(text).w * Head(text).n + ByteLen(Tail(text))

\* str::is_char_boundary(idx), for idx <= len.
RECURSIVE IsCharBoundary(_, _)
IsCharBoundary(text, idx) ==
    IF idx = 0 \/ text = <<>> THEN idx = 0
    ELSE LET bytes == Head(text).w * Head(text).n
         IN  IF idx >= bytes THEN IsCharBoundary(Tail(text), idx - bytes)
             ELSE idx % Head(text).w = 0

\* &s[..idx], for idx on a character boundary.
RECURSIVE Prefix(_, _)
Prefix(text, idx) ==
    IF idx = 0 \/ text = <<>> THEN <<>>
    ELSE LET bytes == Head(text).w * Head(text).n
         IN  IF idx >= bytes THEN <<Head(text)>> \o Prefix(Tail(text), idx - bytes)
             ELSE << [Head(text) EXCEPT !.n = idx \div Head(text).w] >>

\* The UTF-8 text of the strings and numbers that occur in the streams: short
\* ones, ASCII strings of 1014 and 1015 bytes, 600 two-byte characters and 400
\* three-byte characters.
Utf8(s) ==
    CASE s = "a*1014" -> << Repeat("a", 1, 1014) >>
      [] s = "a*1015" -> << Repeat("a", 1, 1015) >>
      [] s = "e*600" -> << Repeat("e-acute", 2, 600) >>
      [] s = "zh*400" -> << Repeat("zhong", 3, 400) >>
      [] OTHER -> << Lit(s, 1) >>

\* format!("{:?}", value) of a serde_json::Value that is no array and no
\* object (the values looked up in the streams are scalars or Null).
DebugFmt(value) ==
    CASE value.t = "null" -> << Lit("Null", 4) >>
      [] value.t = "number" -> << Lit("Number(", 7) >> \o Utf8(value.s) \o << Lit(")", 1) >>
      [] value.t = "string" -> << Lit("String(\"", 8) >> \o Utf8(value.s) \o << Lit("\")", 2) >>

\* maybe_truncated (lines 91-102). &s[..limit] panics when byte limit of s is
\* inside a character; nothing is formatted then.
MaybeTruncated(s, limit) ==
    IF ByteLen(s) > limit
    THEN IF IsCharBoundary(s, limit)
         THEN [panics |-> FALSE,
               text |-> << Lit("(first ", 7), Decimal(limit), Lit("B of ", 5),
                           Decimal(ByteLen(s)), Lit("B): ", 4) >>
                        \o Prefix(s, limit)]
         ELSE [panics |-> TRUE, text |-> <<>>]
    ELSE [panics |-> FALSE, text |-> s]

\* ---------------------------------------------------------------- errors
\* ErrorCode::BadBytes, given to a failing read_line (line 139) and to a
\* rejected field value (line 169).
BadBytes == "BadBytes"
\* The ErrorCode that `?` makes of a serde_json::Error (line 151).
SerdeJsonErrorCode == "SerdeJson"

\* What one read() call returns. kind: "batch" (Ok(Some(block))), "none"
\* (Ok(None)) or "err" (Err(code)). cols: the block's columns in schema
\* order. cause, row, column, type_name, text: which failure, and what its
\* message carries; value: the value the rejecting field was fed, which the
\* message holds as text. kind "panic": the call did not return.
OkNone ==
    [kind |-> "none", cols |-> <<>>, code |-> "", cause |-> "", row |-> 0,
     column |-> <<>>, type_name |-> "", value |-> Null, text |-> <<>>]
OkSome(cols) ==
    [kind |-> "batch", cols |-> cols, code |-> "", cause |-> "", row |-> 0,
     column |-> <<>>, type_name |-> "", value |-> Null, text |-> <<>>]
\* Lines 139-141: "Parse NDJson error at line {self.rows}".
IoError(self_rows) ==
    [kind |-> "err", cols |-> <<>>, code |-> BadBytes, cause |-> "io",
     row |-> self_rows, column |-> <<>>, type_name |-> "", value |-> Null, text |-> <<>>]
\* Line 151: the parse error, converted.
JsonError ==
    [kind |-> "err", cols |-> <<>>, code |-> SerdeJsonErrorCode, cause |-> "json",
     row |-> 0, column |-> <<>>, type_name |-> "", value |-> Null, text |-> <<>>]
\* Mutant: the row is reported counting from 1.
FieldErrorOneBased(rows, field, value, text) ==
    [kind |-> "err", cols |-> <<>>, code |-> BadBytes, cause |-> "field",
     row |-> rows + 1, column |-> field.name, type_name |-> field.type_name,
     value |-> value, text |-> text]

\* Lines 167-177: "error at row {rows} column {name}: type={type_name}, ...,
\* value={value}".
FieldError(rows, field, value, text) ==
    [kind |-> "err", cols |-> <<>>, code |-> BadBytes, cause |-> "field",
     row |-> rows, column |-> field.name, type_name |-> field.type_name,
     value |-> value, text |-> text]
\* Line 175: the slice inside maybe_truncated panics and read() unwinds.
Panicked ==
    [kind |-> "panic", cols |-> <<>>, code |-> "", cause |-> "field", row |-> 0,
     column |-> <<>>, type_name |-> "", value |-> Null, text |-> <<>>]

\* ----------------------------------------------------------- the builder
\* NDJsonSourceBuilder::create
Create(schema, format) ==
    [schema |-> schema, block_size |-> DefaultBlockSize, size_limit |-> UsizeMax,
     format |-> format]

\* NDJsonSource::try_create
TryCreate(b, reader, ident_case_sensitive) ==
    [builder |-> b, reader |-> reader, rows |-> 0, buffer |-> EmptyBuffer,
     ident_case_sensitive |-> ident_case_sensitive]

\* ------------------------------------------------------------- read()
\* Mutant: no check on entry.
BudgetNeverSpent(s) == FALSE

\* Line 110: the check on entry, self.rows >= self.builder.size_limit
BudgetSpent(s) == s.rows >= s.builder.size_limit

\* Mutant: > for >=.
SizeLimitReachedStrict(s) == s.rows > s.builder.size_limit

\* Mutant: no check after a row.
SizeLimitNeverReached(s) == FALSE

\* Line 184: the check after a row, self.rows >= self.builder.size_limit
SizeLimitReached(s) == s.rows >= s.builder.size_limit

\* Mutant: > for >=.
BlockFullStrict(s, rows) == rows > s.builder.block_size

\* Line 189: rows >= self.builder.block_size
BlockFull(s, rows) == rows >= s.builder.block_size

\* Mutant: a value is put in front of the column's earlier values.
RECURSIVE FeedFieldsInFront(_, _, _, _)
FeedFieldsInFront(s, json, packs, i) ==
    IF i > Len(s.builder.schema) THEN [ok |-> TRUE, packs |-> packs, at |-> 0, value |-> Null]
    ELSE LET field == s.builder.schema[i]
             value == LookupValue(json, field.name, s.ident_case_sensitive)
         IN  IF DeJsonAccepts(field, value)
             THEN FeedFieldsInFront(s, json, [packs EXCEPT ![i] = <<value>> \o @], i + 1)
             ELSE [ok |-> FALSE, packs |-> packs, at |-> i, value |-> value]

\* Lines 161-178: the fields in schema order from field i on, each fed the
\* value looked up; the first rejection stops the row, the earlier fields
\* having taken their values.
RECURSIVE FeedFields(_, _, _, _)
FeedFields(s, json, packs, i) ==
    IF i > Len(s.builder.schema) THEN [ok |-> TRUE, packs |-> packs, at |-> 0, value |-> Null]
    ELSE LET field == s.builder.schema[i]
             value == LookupValue(json, field.name, s.ident_case_sensitive)
         IN  IF DeJsonAccepts(field, value)
             THEN FeedFields(s, json, [packs EXCEPT ![i] = Append(@, value)], i + 1)
             ELSE [ok |-> FALSE, packs |-> packs, at |-> i, value |-> value]

\* Mutant: no rows == 0 check.
FinishWithoutEmptyCheck(s, packs, rows) == [src |-> s, res |-> OkSome(packs)]

\* Lines 194-203: after the loop.
Finish(s, packs, rows) ==
    IF rows = 0
    THEN [src |-> s, res |-> OkNone]
    ELSE [src |-> s, res |-> OkSome(packs)]

\* Mutant: the source's counter is not advanced.
CountRowNever(s) == s

\* Line 181: self.rows += 1
CountRow(s) == [s EXCEPT !.rows = @ + 1]

\* Mutant: the line is handed over again by the next read_line.
ReadLineAgain(s) == [s EXCEPT !.buffer = Head(s.reader)]

\* Lines 134-141: buffer.clear() and a read_line that returns a line: the line
\* is in the buffer and the reader is past it.
ReadLine(s) == [s EXCEPT !.reader = Tail(@), !.buffer = Head(s.reader)]

\* Lines 133-191: one iteration of the loop. rows is the call's own row
\* counter, s.rows the source's. done: the iteration leaves the loop or the
\* call, which then returns res; otherwise the loop goes on from src, packs and
\* rows. A failing read_line uses up the failure; what it leaves in the buffer
\* is read by nothing (the next iteration clears it) and is taken to be empty.
LoopIteration(s, packs, rows) ==
    LET leave(r) == [done |-> TRUE, src |-> r.src, packs |-> packs, rows |-> rows,
                     res |-> r.res]
        goon(s_, packs_, rows_) == [done |-> FALSE, src |-> s_, packs |-> packs_,
                                    rows |-> rows_, res |-> OkNone]
    IN
    IF s.reader = <<>>
    THEN \* read_line returns 0
         leave(Finish([s EXCEPT !.buffer = EmptyBuffer], packs, rows))
    ELSE
    LET item == Head(s.reader)
        s1 == ReadLine(s)
    IN  IF item.k = "ioerr"
        THEN leave([src |-> [s EXCEPT !.reader = Tail(@), !.buffer = EmptyBuffer],
                    res |-> IoError(s.rows)])
        ELSE IF TrimIsEmpty(s1.buffer)
        THEN goon(s1, packs, rows)
        ELSE IF ~ParseOk(s1.buffer)
        THEN leave([src |-> s1, res |-> JsonError])
        ELSE
        LET json == CaseFold(s1.buffer.v, s1.ident_case_sensitive)
            fed == FeedFields(s1, json, packs, 1)
            s2 == CountRow(s1)
            shown == MaybeTruncated(DebugFmt(fed.value), TruncateLimit)
        IN  IF ~fed.ok
            THEN leave([src |-> s1,
                        res |-> IF shown.panics THEN Panicked
                                ELSE FieldError(rows, s1.builder.schema[fed.at],
                                                fed.value, shown.text)])
            ELSE IF SizeLimitReached(s2)
            THEN leave(Finish(s2, fed.packs, rows + 1))
            ELSE IF BlockFull(s2, rows + 1)
            THEN leave(Finish(s2, fed.packs, rows + 1))
            ELSE goon(s2, fed.packs, rows + 1)

\* Lines 132-192: the loop, from one iteration on, to the return of the call.
RECURSIVE ReadLoop(_, _, _)
ReadLoop(s, packs, rows) ==
    LET it == LoopIteration(s, packs, rows)
    IN  IF it.done THEN [src |-> it.src, res |-> it.res]
        ELSE ReadLoop(it.src, it.packs, it.rows)

\* NDJsonSource::read: the source after the call and what the call returns.
ReadCall(s) ==
    IF BudgetSpent(s)
    THEN [src |-> s, res |-> OkNone]
    ELSE ReadLoop(s, CreateDeserializers(s.builder.schema), 0)

\* ----------------------------------------------------------------- state
\* builder: the NDJsonSourceBuilder. sources: the sources built from it, in
\* build order. inputs[i]: the stream source i was built over. results[i]:
\* its read() calls in call order, each with what it returned (res) and the
\* source's counter, reader and buffer when it was entered (before) and when
\* it returned (after). pending[i]: the read() call on source i that has not
\* returned yet, if there is one: its deserializers (packs), its own row
\* counter (rows) and the source when it was entered (before).
VARIABLES builder, sources, inputs, results, pending

vars == <<builder, sources, inputs, results, pending>>

Snapshot(s) == [rows |-> s.rows, reader |-> s.reader, buffer |-> s.buffer]

\* No call in flight.
NoCall == [active |-> FALSE, packs |-> <<>>, rows |-> 0, before |-> Snapshot(TryCreate(<<>>, <<>>, FALSE))]

\* The lines and failures a stream is made of.
GoodRecord == JsonLine(Object(<< <<ColId, Number("1")>>, <<ColName, String("x")>> >>))
\* The second field's value is a number where a string is declared.
BadNameRecord == JsonLine(Object(<< <<ColId, Number("2")>>, <<ColName, Number("5")>> >>))
\* {"id": 7}: the key differs from the column "Id" in case, "name" is absent.
LowerIdRecord == JsonLine(Object(<< << <<"i", "d">>, Number("7")>> >>))
Items == {IoFailure, WsLine(1), JunkLine, GoodRecord, BadNameRecord}

RECURSIVE SeqsUpTo(_, _)
SeqsUpTo(S, n) ==
    IF n = 0 THEN {<<>>}
    ELSE LET shorter == SeqsUpTo(S, n - 1)
         IN  shorter \cup {Append(q, x) : q \in shorter, x \in S}

Streams == SeqsUpTo(Items, MaxLines)

Init ==
    /\ builder \in {Create(schema, [ident_case_sensitive |-> cs]) :
                        schema \in Schemas, cs \in BOOLEAN}
    /\ sources = <<>>
    /\ inputs = <<>>
    /\ results = <<>>
    /\ pending = <<>>

\* Mutant: the sources built so far take the new value too.
SetBlockSizeShared(n) ==
    /\ builder' = [builder EXCEPT !.block_size = n]
    /\ sources' = [i \in DOMAIN sources |-> [sources[i] EXCEPT !.builder.block_size = n]]
    /\ UNCHANGED <<inputs, results, pending>>

\* NDJsonSourceBuilder::block_size
SetBlockSize(n) ==
    /\ builder' = [builder EXCEPT !.block_size = n]
    /\ UNCHANGED <<sources, inputs, results, pending>>

\* NDJsonSourceBuilder::size_limit
SetSizeLimit(n) ==
    /\ builder' = [builder EXCEPT !.size_limit = n]
    /\ UNCHANGED <<sources, inputs, results, pending>>

\* NDJsonSourceBuilder::build: self.clone() and the format's flag.
Build(reader) ==
    /\ sources' = Append(sources,
                         TryCreate(builder, reader, builder.format.ident_case_sensitive))
    /\ inputs' = Append(inputs, reader)
    /\ results' = Append(results, <<>>)
    /\ pending' = Append(pending, NoCall)
    /\ UNCHANGED builder

\* One read() call on source i, from its entry to its return.
Read(i) ==
    /\ ~pending[i].active
    /\ Len(results[i]) < MaxCalls
    /\ LET r == ReadCall(sources[i])
       IN  /\ sources' = [sources EXCEPT ![i] = r.src]
           /\ results' = [results EXCEPT ![i] =
                             Append(@, [res |-> r.res,
                                        before |-> Snapshot(sources[i]),
                                        after |-> Snapshot(r.src)])]
    /\ UNCHANGED <<builder, inputs, pending>>

\* Mutant: the counter is one counter for all the sources.
PollSharedCounter(i) ==
    /\ pending[i].active
    /\ \E it \in {LoopIteration(sources[i], pending[i].packs, pending[i].rows)} :
           /\ sources' = [j \in DOMAIN sources |->
                             IF j = i THEN it.src
                             ELSE [sources[j] EXCEPT !.rows = it.src.rows]]
           /\ IF it.done
              THEN /\ results' = [results EXCEPT ![i] =
                                     Append(@, [res |-> it.res,
                                                before |-> pending[i].before,
                                                after |-> Snapshot(it.src)])]
                   /\ pending' = [pending EXCEPT ![i] = NoCall]
              ELSE /\ pending' = [pending EXCEPT ![i].packs = it.packs,
                                                 ![i].rows = it.rows]
                   /\ UNCHANGED results
    /\ UNCHANGED <<builder, inputs>>

\* read() on source i is entered: lines 110-130, up to the loop.
Begin(i) ==
    /\ ~pending[i].active
    /\ Len(results[i]) < MaxCalls
    /\ IF BudgetSpent(sources[i])
       THEN /\ results' = [results EXCEPT ![i] =
                              Append(@, [res |-> OkNone,
                                         before |-> Snapshot(sources[i]),
                                         after |-> Snapshot(sources[i])])]
            /\ UNCHANGED pending
       ELSE /\ pending' = [pending EXCEPT ![i] =
                              [active |-> TRUE,
                               packs |-> CreateDeserializers(sources[i].builder.schema),
                               rows |-> 0,
                               before |-> Snapshot(sources[i])]]
            /\ UNCHANGED results
    /\ UNCHANGED <<builder, sources, inputs>>

\* The call in flight on source i goes on by one iteration of its loop, from
\* one read_line().await to the next or to the return of the call.
Poll(i) ==
    /\ pending[i].active
    /\ \E it \in {LoopIteration(sources[i], pending[i].packs, pending[i].rows)} :
           /\ sources' = [sources EXCEPT ![i] = it.src]
           /\ IF it.done
              THEN /\ results' = [results EXCEPT ![i] =
                                     Append(@, [res |-> it.res,
                                                before |-> pending[i].before,
                                                after |-> Snapshot(it.src)])]
                   /\ pending' = [pending EXCEPT ![i] = NoCall]
              ELSE /\ pending' = [pending EXCEPT ![i].packs = it.packs,
                                                 ![i].rows = it.rows]
                   /\ UNCHANGED results
    /\ UNCHANGED <<builder, inputs>>

\* One builder configured by its setters, then one source built over a stream
\* and read.
Next ==
    \/ \E n \in 0..MaxBlock : sources = <<>> /\ SetBlockSize(n)
    \/ \E n \in 0..MaxLimit : sources = <<>> /\ SetSizeLimit(n)
    \/ \E reader \in Streams : sources = <<>> /\ Build(reader)
    \/ \E i \in DOMAIN sources : Read(i)

Spec == Init /\ [][Next]_vars

\* ------------------------------------------------------- reading the runs
\* The rows of a returned block (0 for exhaustion and for an error).
RowsOf(res) == IF res.kind = "batch" THEN Len(res.cols[1]) ELSE 0

\* The rows of all blocks returned by the first k calls.
RECURSIVE SumRows(_, _)
SumRows(calls, k) == IF k = 0 THEN 0 ELSE SumRows(calls, k - 1) + RowsOf(calls[k].res)

\* The reader outcomes a call used up, in order.
Consumed(call) ==
    SubSeq(call.before.reader, 1, Len(call.before.reader) - Len(call.after.reader))

IsBlankItem(item) == item.k = "ws"

\* A line that is a JSON document every field of which is accepted in the
\* source's case mode.
IsValidRecord(item, s) ==
    /\ item.k = "json"
    /\ \A f \in DOMAIN s.builder.schema :
          DeJsonAccepts(s.builder.schema[f],
                        LookupValue(CaseFold(item.v, s.ident_case_sensitive),
                                    s.builder.schema[f].name, s.ident_case_sensitive))

\* The non-blank outcomes of a stream, in order.
NonBlank(stream) == SelectSeq(stream, LAMBDA item : ~IsBlankItem(item))

\* What call k returns when n valid records are emitted in blocks of b rows:
\* n \div b full blocks, the rest as one shorter block, then exhaustion.
ExpectedRows(n, b, k) ==
    IF k <= n \div b THEN b
    ELSE IF k = (n \div b) + 1 THEN n % b
    ELSE 0

\* ----------------------------------------------------------------- claims

\* C1: with block_size >= 1, every block returned by read() has one column per
\* schema field, all of one length, and that length is in 1..block_size; it is
\* the number of rows the call decoded, and a call that decodes no row and
\* does not fail returns exhaustion.
C1_BatchShape ==
    \A i \in DOMAIN sources : \A k \in DOMAIN results[i] :
        LET call == results[i][k]
            b == sources[i].builder
        IN  b.block_size >= 1 =>
              /\ call.res.kind = "batch" =>
                    /\ Len(call.res.cols) = Len(b.schema)
                    /\ \A c \in DOMAIN call.res.cols :
                          Len(call.res.cols[c]) = Len(call.res.cols[1])
                    /\ Len(call.res.cols[1]) \in 1..b.block_size
                    /\ Len(call.res.cols[1]) = call.after.rows - call.before.rows
              /\ (call.res.kind = "none") => (call.after.rows = call.before.rows)

\* A full block of two rows and a shorter one have been returned.
C1_Witness ==
    \E i \in DOMAIN sources : \E k1, k2 \in DOMAIN results[i] :
        /\ sources[i].builder.block_size = 2
        /\ results[i][k1].res.kind = "batch" /\ RowsOf(results[i][k1].res) = 2
        /\ results[i][k2].res.kind = "batch" /\ RowsOf(results[i][k2].res) = 1

\* C2: with a finite size_limit, after any calls (failing ones included) the
\* blocks returned hold at most size_limit rows in all, and a call entered with
\* the counter at size_limit or above returns no block.
C2_SizeLimit ==
    \A i \in DOMAIN sources :
        LET b == sources[i].builder
        IN  b.size_limit < UsizeMax =>
              /\ SumRows(results[i], Len(results[i])) <= b.size_limit
              /\ \A k \in DOMAIN results[i] :
                    results[i][k].before.rows >= b.size_limit
                        => results[i][k].res.kind # "batch"

\* A call failed, later calls filled the budget of two, and a call entered with
\* the budget spent.
C2_Witness ==
    \E i \in DOMAIN sources : \E k1, k2 \in DOMAIN results[i] :
        /\ sources[i].builder.size_limit = 2
        /\ k1 < k2
        /\ results[i][k1].res.kind = "err"
        /\ results[i][k2].before.rows >= 2
        /\ SumRows(results[i], Len(results[i])) = 2

\* C3: with size_limit unbounded, block_size B >= 1 and a stream of N valid
\* records (blank lines between them allowed), the calls return N div B blocks
\* of B rows, then one of N mod B rows if that is not 0, then exhaustion.
C3_FullBlocksThenRest ==
    \A i \in DOMAIN sources :
        LET b == sources[i].builder
            n == Len(NonBlank(inputs[i]))
        IN  ( /\ b.size_limit = UsizeMax
              /\ b.block_size >= 1
              /\ \A j \in DOMAIN inputs[i] :
                    IsBlankItem(inputs[i][j]) \/ IsValidRecord(inputs[i][j], sources[i]) )
            => \A k \in DOMAIN results[i] :
                 LET res == results[i][k].res
                     want == ExpectedRows(n, b.block_size, k)
                 IN  /\ res.kind = (IF want > 0 THEN "batch" ELSE "none")
                     /\ RowsOf(res) = want

\* block_size 2 over three valid records: blocks of 2 and 1 rows, then
\* exhaustion.
C3_Witness ==
    \E i \in DOMAIN sources :
        /\ sources[i].builder.block_size = 2
        /\ sources[i].builder.size_limit = UsizeMax
        /\ inputs[i] = <<GoodRecord, GoodRecord, GoodRecord>>
        /\ Len(results[i]) = 3
        /\ RowsOf(results[i][1].res) = 2
        /\ RowsOf(results[i][2].res) = 1
        /\ results[i][3].res.kind = "none"

\* C4: with size_limit L >= 1 over a stream whose first L non-blank lines are
\* valid records, the blocks hold L rows in all: L div B blocks of B rows, then
\* one of L mod B rows cut at the limit, then exhaustion whatever is left in
\* the stream (for block_size 0, L blocks of one row).
C4_CutAtLimit ==
    \A i \in DOMAIN sources :
        LET b == sources[i].builder
            l == b.size_limit
            nb == NonBlank(inputs[i])
        IN  ( /\ l >= 1 /\ l < UsizeMax
              /\ Len(nb) >= l
              /\ \A j \in 1..l : IsValidRecord(nb[j], sources[i]) )
            => /\ \A k \in DOMAIN results[i] :
                    LET res == results[i][k].res
                        want == ExpectedRows(l, IF b.block_size = 0 THEN 1 ELSE b.block_size, k)
                    IN  /\ res.kind = (IF want > 0 THEN "batch" ELSE "none")
                        /\ RowsOf(res) = want
               /\ (\E k \in DOMAIN results[i] : results[i][k].res.kind = "none")
                    => SumRows(results[i], Len(results[i])) = l

\* size_limit 1 under block_size 2: one block of one row, then exhaustion with
\* lines left in the stream.
C4_Witness ==
    \E i \in DOMAIN sources :
        /\ sources[i].builder.size_limit = 1
        /\ sources[i].builder.block_size = 2
        /\ Len(results[i]) >= 2
        /\ RowsOf(results[i][1].res) = 1
        /\ results[i][2].res.kind = "none"
        /\ results[i][2].after.reader # <<>>

\* C5: a call entered with the counter at size_limit or above returns
\* exhaustion and leaves the reader, the counter and the buffer as they were;
\* every later call returns exhaustion too.
C5_ExhaustedByLimit ==
    \A i \in DOMAIN sources : \A k \in DOMAIN results[i] :
        results[i][k].before.rows >= sources[i].builder.size_limit
            => /\ results[i][k].res = OkNone
               /\ results[i][k].after = results[i][k].before
               /\ \A k2 \in DOMAIN results[i] :
                     k2 > k => results[i][k2].res = OkNone

\* Two calls in a row entered with the budget spent and lines still unread.
C5_Witness ==
    \E i \in DOMAIN sources : \E k \in DOMAIN results[i] :
        /\ sources[i].builder.size_limit >= 1
        /\ results[i][k].before.rows >= sources[i].builder.size_limit
        /\ results[i][k].before.reader # <<>>
        /\ k + 1 \in DOMAIN results[i]

\* C7: a call that fails returns no block and stops at the failing line: the
\* last outcome it used up is the failure (a failing read, a line that is not
\* JSON, or a record with a rejected field), every outcome before it in the
\* call is a blank line or a decoded record, and the reader stands right after
\* it. In every call, each line used up is blank, or a decoded row, or the one
\* failure.
C7_AbortAtFailingLine ==
    \A i \in DOMAIN sources : \A k \in DOMAIN results[i] :
        LET call == results[i][k]
            used == Consumed(call)
            blanks == Cardinality({j \in DOMAIN used : IsBlankItem(used[j])})
            decoded == call.after.rows - call.before.rows
            failed == IF call.res.kind = "err" THEN 1 ELSE 0
        IN  /\ Len(used) = blanks + decoded + failed
            /\ call.after.reader =
                  SubSeq(call.before.reader, Len(used) + 1, Len(call.before.reader))
            /\ call.res.kind = "err" =>
                  /\ call.res.cols = <<>>
                  /\ Len(used) >= 1
                  /\ LET last == used[Len(used)]
                     IN  \/ call.res.cause = "io" /\ last = IoFailure
                         \/ call.res.cause = "json" /\ last = JunkLine
                         \/ /\ call.res.cause = "field"
                            /\ last.k = "json"
                            /\ ~IsValidRecord(last, sources[i])
                  /\ \A j \in 1..(Len(used) - 1) :
                        IsBlankItem(used[j]) \/ IsValidRecord(used[j], sources[i])

\* A call decoded a row, then failed on a later line, with lines left unread.
C7_Witness ==
    \E i \in DOMAIN sources : \E k \in DOMAIN results[i] :
        /\ results[i][k].res.kind = "err"
        /\ results[i][k].after.rows > results[i][k].before.rows
        /\ results[i][k].after.reader # <<>>

\* ------------------------------------------------------------ blank lines
\* Streams of empty lines, whitespace-only lines, records and failing lines.
BlankItems == {WsLine(0), WsLine(1), GoodRecord, BadNameRecord, JunkLine}
BlankStreams == SeqsUpTo(BlankItems, MaxLines)

NextBlank ==
    \/ \E n \in 0..MaxBlock : sources = <<>> /\ SetBlockSize(n)
    \/ \E n \in 0..MaxLimit : sources = <<>> /\ SetSizeLimit(n)
    \/ \E reader \in BlankStreams : sources = <<>> /\ Build(reader)
    \/ \E i \in DOMAIN sources : Read(i)

SpecBlank == Init /\ [][NextBlank]_vars

\* What the first k read() calls on source s return, each with the source's
\* counter after it.
RECURSIVE RunCalls(_, _)
RunCalls(s, k) ==
    IF k = 0 THEN <<>>
    ELSE LET r == ReadCall(s)
         IN  <<[res |-> r.res, rows |-> r.src.rows]>> \o RunCalls(r.src, k - 1)

\* C6: blank lines count for nothing: every call returns what the same call
\* returns on a source built alike over the stream without its blank lines
\* (the same block, exhaustion or error) and leaves the same counter; over a
\* stream of blank lines only, the first call returns exhaustion.
C6_BlankLinesIgnored ==
    \A i \in DOMAIN sources :
        LET s == sources[i]
            bare == TryCreate(s.builder, NonBlank(inputs[i]), s.ident_case_sensitive)
            run == RunCalls(bare, Len(results[i]))
        IN  /\ \A k \in DOMAIN results[i] :
                  /\ results[i][k].res = run[k].res
                  /\ results[i][k].after.rows = run[k].rows
            /\ (\A j \in DOMAIN inputs[i] : IsBlankItem(inputs[i][j]))
                  => \A k \in DOMAIN results[i] : results[i][k].res = OkNone

\* A block of two rows read across an empty and a whitespace-only line.
C6_Witness ==
    \E i \in DOMAIN sources : \E k \in DOMAIN results[i] :
        /\ RowsOf(results[i][k].res) = 2
        /\ Len(Consumed(results[i][k])) = 3
        /\ IsBlankItem(Consumed(results[i][k])[2])

\* ------------------------------------------------------------------ keys
\* Streams of one record whose keys vary in case: objects of up to two entries
\* with distinct keys, in any iteration order.
KeyNames == { <<"I", "d">>, <<"i", "d">>, <<"I", "D">>,
              <<"n", "a", "m", "e">>, <<"N", "a", "m", "e">> }
KeyValues == { Number("7"), String("x") }
KeyObjects ==
    {Object(<<>>)}
    \cup {Object(<< <<k, v>> >>) : k \in KeyNames, v \in KeyValues}
    \cup {Object(<< <<e[1], e[3]>>, <<e[2], e[4]>> >>) :
            e \in {x \in KeyNames \X KeyNames \X KeyValues \X KeyValues : x[1] # x[2]}}
KeyStreams == {<<JsonLine(o)>> : o \in KeyObjects}

NextKeys ==
    \/ \E n \in 0..MaxBlock : sources = <<>> /\ SetBlockSize(n)
    \/ \E n \in 0..MaxLimit : sources = <<>> /\ SetSizeLimit(n)
    \/ \E reader \in KeyStreams : sources = <<>> /\ Build(reader)
    \/ \E i \in DOMAIN sources : Read(i)

SpecKeys == Init /\ [][NextKeys]_vars

\* Whether the call shows what field f was fed: the block's column holds it,
\* and so does the error of the field that rejected it.
Observed(call, field, f) ==
    \/ call.res.kind = "batch"
    \/ call.res.kind = "err" /\ call.res.cause = "field" /\ call.res.column = field.name

Received(call, f) ==
    IF call.res.kind = "batch" THEN call.res.cols[f][1] ELSE call.res.value

\* The entries of an object whose key, lowercased, is the lowercased name.
CaseBlindMatches(obj, name) ==
    {j \in DOMAIN obj.m : ToLowercase(obj.m[j][1]) = ToLowercase(name)}

ExactMatches(obj, name) == {j \in DOMAIN obj.m : obj.m[j][1] = name}

\* The case-sensitive half of C8: the field is fed the value of the key equal
\* to the column name, and null when there is none.
CaseSensitiveResolution(call, obj, field, f) ==
    /\ \A j \in ExactMatches(obj, field.name) : Received(call, f) = obj.m[j][2]
    /\ ExactMatches(obj, field.name) = {} => Received(call, f) = Null

\* C8 as stated: in case-insensitive mode the field is fed the value of every
\* key that equals the column name when both are lowercased; in case-sensitive
\* mode the value of the key equal to the name, and null when there is none.
C8_Original ==
    \A i \in DOMAIN sources : \A k \in DOMAIN results[i] :
        LET call == results[i][k]
            s == sources[i]
        IN  Len(Consumed(call)) = 1 =>
              \A f \in DOMAIN s.builder.schema :
                LET field == s.builder.schema[f]
                    obj == Consumed(call)[1].v
                IN  Observed(call, field, f) =>
                      IF s.ident_case_sensitive
                      THEN CaseSensitiveResolution(call, obj, field, f)
                      ELSE \A j \in CaseBlindMatches(obj, field.name) :
                              Received(call, f) = obj.m[j][2]

\* C8, amended: in case-insensitive mode the field is fed the value of the
\* last key, in the object's iteration order, that equals the column name when
\* both are lowercased (of the only one when there is one), and null when
\* there is none; the case-sensitive half as stated.
C8_KeyResolution ==
    \A i \in DOMAIN sources : \A k \in DOMAIN results[i] :
        LET call == results[i][k]
            s == sources[i]
        IN  Len(Consumed(call)) = 1 =>
              \A f \in DOMAIN s.builder.schema :
                LET field == s.builder.schema[f]
                    obj == Consumed(call)[1].v
                    hits == CaseBlindMatches(obj, field.name)
                IN  Observed(call, field, f) =>
                      IF s.ident_case_sensitive
                      THEN CaseSensitiveResolution(call, obj, field, f)
                      ELSE IF hits = {} THEN Received(call, f) = Null
                      ELSE Received(call, f) =
                             obj.m[CHOOSE j \in hits : \A j2 \in hits : j2 <= j][2]

\* Case-insensitive mode, column "Id", record {"id": 7}: the block's first
\* column holds 7.
C8_Witness ==
    \E i \in DOMAIN sources : \E k \in DOMAIN results[i] :
        /\ ~sources[i].ident_case_sensitive
        /\ Consumed(results[i][k]) = <<LowerIdRecord>>
        /\ results[i][k].res.kind = "batch"
        /\ results[i][k].res.cols[1] = <<Number("7")>>

\* C9: the block_size setter takes positive values only, so no source is ever
\* built with a block_size of 0.
C9_BlockSizePositive ==
    /\ builder.block_size >= 1
    /\ \A i \in DOMAIN sources : sources[i].builder.block_size >= 1

\* C10: the three failures of read() (a failing line read, a line that is not
\* JSON, a rejected field value) carry error codes that differ from one
\* another.
C10_ErrorKindsDistinct ==
    \A i \in DOMAIN sources : \A k1, k2 \in DOMAIN results[i] :
        ( /\ results[i][k1].res.kind = "err"
          /\ results[i][k2].res.kind = "err"
          /\ results[i][k1].res.cause # results[i][k2].res.cause )
        => results[i][k1].res.code # results[i][k2].res.code

\* ------------------------------------------------------ rows and errors
\* The value field f is fed from the record on a line, in the source's mode.
FieldValueOf(item, s, f) ==
    LookupValue(CaseFold(item.v, s.ident_case_sensitive),
                s.builder.schema[f].name, s.ident_case_sensitive)

\* The records a call decoded: the lines it used up that are valid records.
DecodedIn(call, s) ==
    Cardinality({j \in DOMAIN Consumed(call) : IsValidRecord(Consumed(call)[j], s)})

\* The first field, in schema order, whose deserializer rejects its value.
FirstRejected(item, s) ==
    CHOOSE f \in DOMAIN s.builder.schema :
        /\ ~DeJsonAccepts(s.builder.schema[f], FieldValueOf(item, s, f))
        /\ \A g \in 1..(f - 1) : DeJsonAccepts(s.builder.schema[g], FieldValueOf(item, s, g))

\* C11: a field error carries the number of rows the failing call had decoded
\* (counted from 0 in every call) with the name and the type name of the field
\* that rejected its value; a failing line read carries the source's
\* cumulative counter.
C11_RowAttribution ==
    \A i \in DOMAIN sources : \A k \in DOMAIN results[i] :
        LET call == results[i][k]
            s == sources[i]
            used == Consumed(call)
        IN  /\ (call.res.kind = "err" /\ call.res.cause = "field") =>
                  LET f == FirstRejected(used[Len(used)], s)
                  IN  /\ call.res.row = DecodedIn(call, s)
                      /\ call.res.column = s.builder.schema[f].name
                      /\ call.res.type_name = s.builder.schema[f].type_name
            /\ (call.res.kind = "err" /\ call.res.cause = "io") =>
                  /\ call.res.row = call.before.rows + DecodedIn(call, s)
                  /\ call.res.row = call.after.rows

\* After a block of one row, a call has a field rejected on its first line
\* (row 0 with the counter at 1), and a later call meets a failing read before
\* it decodes anything (row 1, the counter).
C11_Witness ==
    \E i \in DOMAIN sources : \E k1, k2 \in DOMAIN results[i] :
        /\ results[i][k1].res.cause = "field"
        /\ results[i][k1].before.rows = 1
        /\ results[i][k1].res.row = 0
        /\ results[i][k2].res.cause = "io"
        /\ results[i][k2].res.row = 1
        /\ DecodedIn(results[i][k2], sources[i]) = 0

\* ------------------------------------------------------------ long values
\* Streams of one record whose "Id", declared Int64, is a string: short, of
\* 1014 and 1015 ASCII characters, of 600 two-byte and of 400 three-byte
\* characters; the last is followed by a good record.
LongRecord(s) == JsonLine(Object(<< <<ColId, String(s)>> >>))
LongStreams ==
    { <<LongRecord(s)>> : s \in {"x", "a*1014", "a*1015", "e*600", "zh*400"} }
    \cup { <<LongRecord("zh*400"), GoodRecord>> }

NextLong ==
    \/ \E n \in 0..MaxBlock : sources = <<>> /\ SetBlockSize(n)
    \/ \E n \in 0..MaxLimit : sources = <<>> /\ SetSizeLimit(n)
    \/ \E reader \in LongStreams : sources = <<>> /\ Build(reader)
    \/ \E i \in DOMAIN sources : Read(i)

SpecLong == Init /\ [][NextLong]_vars

\* Byte i (from 1) of a text: the piece it lies in and its place there (in the
\* piece for a literal, in the character for a repeated character).
RECURSIVE ByteAt(_, _)
ByteAt(text, i) ==
    LET bytes == Head(text).w * Head(text).n
    IN  IF i > bytes THEN ByteAt(Tail(text), i - bytes)
        ELSE [c |-> Head(text).c, k |-> Head(text).k,
              j |-> IF Head(text).rep THEN (i - 1) % Head(text).w ELSE i - 1]

\* The longest text around the kept bytes: "(first ", the limit's digits,
\* "B of ", at most 20 digits of a 64-bit length, "B): ".
WrapperBound == 7 + Digits(TruncateLimit) + 5 + 20 + 4

\* A call whose last line is a record with a rejected field value.
RejectsField(call, s) ==
    /\ Consumed(call) # <<>>
    /\ Consumed(call)[Len(Consumed(call))].k = "json"
    /\ ~IsValidRecord(Consumed(call)[Len(Consumed(call))], s)

\* The rejected value as format!("{:?}", value) renders it.
RejectedText(call, s) ==
    LET last == Consumed(call)[Len(Consumed(call))]
    IN  DebugFmt(FieldValueOf(last, s, FirstRejected(last, s)))

\* The text reported for the rendered value r: r itself up to 1024 bytes;
\* beyond, a text that ends with the first 1024 bytes of r, holds the length of
\* r and is at most WrapperBound bytes longer than 1024.
ReportedAsClaimed(text, r) ==
    IF ByteLen(r) <= TruncateLimit THEN text = r
    ELSE /\ ByteLen(text) <= TruncateLimit + WrapperBound
         /\ ByteLen(text) >= TruncateLimit
         /\ \A b \in 1..TruncateLimit :
               ByteAt(text, ByteLen(text) - TruncateLimit + b) = ByteAt(r, b)
         /\ \E p \in DOMAIN text : text[p] = Decimal(ByteLen(r))

\* C12: a call that has a field value rejected returns the field error, whose
\* text is the rendered value unchanged up to 1024 bytes and, beyond, exactly
\* its first 1024 bytes with the original length, in at most 1024 bytes plus a
\* fixed wrapper.
C12_Truncation ==
    \A i \in DOMAIN sources : \A k \in DOMAIN results[i] :
        RejectsField(results[i][k], sources[i]) =>
            /\ results[i][k].res.kind = "err"
            /\ ReportedAsClaimed(results[i][k].res.text,
                                 RejectedText(results[i][k], sources[i]))

\* C12 where the slice does not panic: every field error that is returned
\* carries the text as claimed.
C12_WhenReturned ==
    \A i \in DOMAIN sources : \A k \in DOMAIN results[i] :
        (RejectsField(results[i][k], sources[i]) /\ results[i][k].res.kind = "err") =>
            ReportedAsClaimed(results[i][k].res.text,
                              RejectedText(results[i][k], sources[i]))

\* A value of 1025 bytes was cut to 1024.
C12_CutReached ==
    \E i \in DOMAIN sources : \E k \in DOMAIN results[i] :
        /\ results[i][k].res.kind = "err"
        /\ ByteLen(results[i][k].res.text) > TruncateLimit

\* C14: between calls the source's counter is the number of rows emitted so
\* far: the rows of all the blocks its read() calls have returned.
C14_RowsAreEmittedRows ==
    \A i \in DOMAIN sources :
        sources[i].rows = SumRows(results[i], Len(results[i]))

\* ------------------------------------------------------------ row order
\* Streams of two different records, a blank line and a line with a rejected
\* field.
OtherRecord == JsonLine(Object(<< <<ColId, Number("3")>>, <<ColName, String("y")>> >>))
OrderItems == {GoodRecord, OtherRecord, WsLine(1), BadNameRecord}
OrderStreams == SeqsUpTo(OrderItems, MaxLines)

NextOrder ==
    \/ \E n \in 0..MaxBlock : sources = <<>> /\ SetBlockSize(n)
    \/ \E n \in 0..MaxLimit : sources = <<>> /\ SetSizeLimit(n)
    \/ \E reader \in OrderStreams : sources = <<>> /\ Build(reader)
    \/ \E i \in DOMAIN sources : Read(i)

SpecOrder == Init /\ [][NextOrder]_vars

\* The values of field f on the lines of a sequence, in the source's mode.
ValuesOf(lines, s, f) == [j \in DOMAIN lines |-> FieldValueOf(lines[j], s, f)]

\* Column f of all the blocks the first k calls returned, in call order.
RECURSIVE Emitted(_, _, _)
Emitted(calls, k, f) ==
    IF k = 0 THEN <<>>
    ELSE Emitted(calls, k - 1, f)
         \o (IF calls[k].res.kind = "batch" THEN calls[k].res.cols[f] ELSE <<>>)

ErrorFree(calls) == \A k \in DOMAIN calls : calls[k].res.kind \in {"batch", "none"}

Min(a, b) == IF a < b THEN a ELSE b

\* C15: in a run without errors the rows come out in input order: the blocks
\* returned so far, put end to end, are the first non-blank lines of the
\* input; once exhaustion is returned they are its first min(size_limit, N)
\* non-blank lines; and every block holds the non-blank lines its call used
\* up, in their order.
C15_InputOrder ==
    \A i \in DOMAIN sources :
        ErrorFree(results[i]) =>
            LET s == sources[i]
                calls == results[i]
                lines == NonBlank(inputs[i])
            IN  \A f \in DOMAIN s.builder.schema :
                    /\ s.rows <= Len(lines)
                    /\ Emitted(calls, Len(calls), f) = ValuesOf(SubSeq(lines, 1, s.rows), s, f)
                    /\ (\E k \in DOMAIN calls : calls[k].res = OkNone)
                          => s.rows = Min(s.builder.size_limit, Len(lines))
                    /\ \A k \in DOMAIN calls :
                          calls[k].res.kind = "batch"
                              => calls[k].res.cols[f]
                                    = ValuesOf(NonBlank(Consumed(calls[k])), s, f)

\* A run that returned a block of two different rows read across a blank
\* line, then exhaustion.
C15_Witness ==
    \E i \in DOMAIN sources : \E k1, k2 \in DOMAIN results[i] :
        /\ ErrorFree(results[i])
        /\ k1 < k2
        /\ results[i][k1].res.kind = "batch"
        /\ Len(results[i][k1].res.cols[1]) = 2
        /\ results[i][k1].res.cols[1][1] # results[i][k1].res.cols[1][2]
        /\ Len(Consumed(results[i][k1])) = 3
        /\ results[i][k2].res = OkNone

\* The valid records among the lines a call used up, in order.
RecordsIn(call, s) == SelectSeq(Consumed(call), LAMBDA item : IsValidRecord(item, s))

\* C17: a block holds the values of the records its own call decoded and no
\* others, whatever the earlier calls did: nothing is left in the columns from
\* an earlier block or from the row an earlier call failed in.
C17_FreshDeserializers ==
    \A i \in DOMAIN sources : \A k \in DOMAIN results[i] :
        LET call == results[i][k]
            s == sources[i]
        IN  call.res.kind = "batch" =>
                \A f \in DOMAIN s.builder.schema :
                    call.res.cols[f] = ValuesOf(RecordsIn(call, s), s, f)

\* A call fails on its second field, the first having taken its value, and a
\* later call returns a block; and a block follows a block.
C17_Witness ==
    \E i \in DOMAIN sources : \E k1, k2 \in DOMAIN results[i] :
        /\ k1 < k2
        /\ results[i][k1].res.kind = "err"
        /\ results[i][k1].res.cause = "field"
        /\ results[i][k1].res.column = ColName
        /\ results[i][k2].res.kind = "batch"

\* C18: the counter starts at 0, is carried from call to call, never goes
\* down, is at least the rows of the blocks returned so far and at most
\* size_limit, and a call adds to it the number of lines it decoded in full:
\* also a call that fails, and nothing for the line that fails.
C18_Counter ==
    \A i \in DOMAIN sources :
        LET s == sources[i]
            calls == results[i]
        IN  /\ s.rows >= SumRows(calls, Len(calls))
            /\ s.rows <= s.builder.size_limit
            /\ \A k \in DOMAIN calls :
                  /\ calls[k].before.rows = (IF k = 1 THEN 0 ELSE calls[k - 1].after.rows)
                  /\ calls[k].after.rows >= calls[k].before.rows
                  /\ calls[k].after.rows = calls[k].before.rows + DecodedIn(calls[k], s)
                  /\ calls[k].after.rows >= SumRows(calls, k)
            /\ (calls # <<>>) => s.rows = calls[Len(calls)].after.rows

\* A call decodes a line, then fails on the next: the counter is one higher
\* and no block was returned.
C18_Witness ==
    \E i \in DOMAIN sources : \E k \in DOMAIN results[i] :
        /\ results[i][k].res.kind = "err"
        /\ results[i][k].after.rows = results[i][k].before.rows + 1
        /\ Len(Consumed(results[i][k])) = 2
        /\ sources[i].rows > SumRows(results[i], Len(results[i]))

\* ---------------------------------------------------- lines not an object
\* Besides the schema above, one whose columns all take null:
\* ("Id", Nullable(Int64)), ("name", Nullable(String)).
SchemaAllNullable ==
    << Field(ColId, "Nullable(Int64)", "number", TRUE),
       Field(ColName, "Nullable(String)", "string", TRUE) >>
ScalarSchemas == {SchemaIdName, SchemaAllNullable}

\* Lines holding a number, a string, an array, true, false, null, {} and a
\* record; streams of up to ScalarLines of them.
ScalarLines == 2
EmptyObjectLine == JsonLine(Object(<<>>))
ScalarItems ==
    {JsonLine(Number("7")), JsonLine(String("x")), JsonLine(Array(<<Number("1")>>)),
     JsonLine(Bool("true")), JsonLine(Bool("false")), JsonLine(Null),
     EmptyObjectLine, GoodRecord}
ScalarStreams == SeqsUpTo(ScalarItems, ScalarLines)

InitScalars ==
    /\ builder \in {Create(schema, [ident_case_sensitive |-> cs]) :
                        schema \in ScalarSchemas, cs \in BOOLEAN}
    /\ sources = <<>>
    /\ inputs = <<>>
    /\ results = <<>>
    /\ pending = <<>>

NextScalars ==
    \/ \E n \in 0..MaxBlock : sources = <<>> /\ SetBlockSize(n)
    \/ \E reader \in ScalarStreams : sources = <<>> /\ Build(reader)
    \/ \E i \in DOMAIN sources : Read(i)

SpecScalars == InitScalars /\ [][NextScalars]_vars

\* A line that is JSON and no object.
IsNonObject(item) == item.k = "json" /\ item.v.t # "object"

\* The stream with {} in the place of every line that is JSON and no object.
AsEmptyObjects(stream) ==
    [j \in DOMAIN stream |-> IF IsNonObject(stream[j]) THEN EmptyObjectLine ELSE stream[j]]

\* Every deserializer of the source takes null.
AllTakeNull(s) == \A f \in DOMAIN s.builder.schema : DeJsonAccepts(s.builder.schema[f], Null)

\* A call whose last line used up is JSON and no object.
EndsOnNonObject(call) ==
    /\ Consumed(call) # <<>>
    /\ IsNonObject(Consumed(call)[Len(Consumed(call))])

\* C20 as stated: a line that is JSON and no object never makes read() fail;
\* the call that reads it returns a block.
C20_Original ==
    \A i \in DOMAIN sources : \A k \in DOMAIN results[i] :
        EndsOnNonObject(results[i][k]) => results[i][k].res.kind = "batch"

\* C20: in both case modes a line that is JSON and no object is read exactly
\* as the object {}: every call returns what it returns over the stream with
\* {} in its place and leaves the same counter; every field is fed null, so
\* the line is a row of nulls when every deserializer takes null, and otherwise
\* the call fails with the field error of the first field that rejects null.
C20_NonObjectAsEmptyObject ==
    \A i \in DOMAIN sources :
        LET s == sources[i]
            like == TryCreate(s.builder, AsEmptyObjects(inputs[i]), s.ident_case_sensitive)
            run == RunCalls(like, Len(results[i]))
        IN  \A k \in DOMAIN results[i] :
                LET call == results[i][k]
                    n == Len(Consumed(call))
                IN  /\ call.res = run[k].res
                    /\ call.after.rows = run[k].rows
                    /\ EndsOnNonObject(call) =>
                          IF AllTakeNull(s)
                          THEN /\ call.res.kind = "batch"
                               /\ call.after.rows = call.before.rows + n
                               /\ \A f \in DOMAIN s.builder.schema :
                                     /\ Len(call.res.cols[f]) = n
                                     /\ call.res.cols[f][n] = Null
                          ELSE /\ call.res.kind = "err"
                               /\ call.res.cause = "field"
                               /\ call.res.value = Null
                               /\ call.res.row = n - 1
                               /\ call.res.column
                                     = s.builder.schema[FirstRejected(EmptyObjectLine, s)].name

\* A record and then a line holding a number are read into a block of two
\* rows, the second one nulls, by a source whose columns all take null.
C20_Witness ==
    \E i \in DOMAIN sources : \E k \in DOMAIN results[i] :
        /\ AllTakeNull(sources[i])
        /\ Consumed(results[i][k]) = <<GoodRecord, JsonLine(Number("7"))>>
        /\ results[i][k].res.kind = "batch"
        /\ results[i][k].res.cols[1] = <<Number("1"), Null>>

\* ------------------------------------------------- the builder after build
\* The setters are called at any time, also after build; up to two sources
\* are built from the builder, each over its own reader of the same two lines.
TwoRecords == <<GoodRecord, OtherRecord>>

NextBuilder ==
    \/ \E n \in 1..MaxBlock : SetBlockSize(n)
    \/ \E n \in 1..MaxLimit : SetSizeLimit(n)
    \/ Len(sources) \in {0, 1} /\ Build(TwoRecords)
    \/ \E i \in DOMAIN sources : Read(i)

SpecBuilder == Init /\ [][NextBuilder]_vars

\* The source build returns for the builder as it is now.
BuiltNow(reader) == TryCreate(builder, reader, builder.format.ident_case_sensitive)

\* C16: a source keeps the configuration it was built with: no step, a
\* setter call on the builder included, changes the block_size, the size_limit
\* or the case flag of a source built before it, and a source built in a step
\* has the builder's values of that moment; every source returns what a
\* source with its configuration returns over its input.
C16_ConfigFixedAtBuild ==
    /\ [][ /\ \A i \in DOMAIN sources :
                 /\ sources'[i].builder = sources[i].builder
                 /\ sources'[i].ident_case_sensitive = sources[i].ident_case_sensitive
           /\ Len(sources') > Len(sources)
                 => sources'[Len(sources')] = BuiltNow(inputs'[Len(sources')]) ]_vars
    /\ [](\A i \in DOMAIN sources :
             LET s == sources[i]
                 run == RunCalls(TryCreate(s.builder, inputs[i], s.ident_case_sensitive),
                                 Len(results[i]))
             IN  \A k \in DOMAIN results[i] : results[i][k].res = run[k].res)

\* A source built with the default block size has returned both lines in one
\* block after the builder was set to blocks of one row, and a source built
\* after that has returned a block of one row.
C16_Witness ==
    /\ Len(sources) = 2
    /\ builder.block_size = 1
    /\ sources[1].builder.block_size = DefaultBlockSize
    /\ sources[2].builder.block_size = 1
    /\ results[1] # <<>> /\ RowsOf(results[1][1].res) = 2
    /\ results[2] # <<>> /\ RowsOf(results[2][1].res) = 1
    /\ Len(results[2]) >= Len(results[1])

\* --------------------------------------------------- two sources, by steps
\* Two sources are built from one builder, each over its own reader, and read
\* by two callers whose calls go on side by side, one loop iteration at a
\* time.
StepStreams ==
    { <<GoodRecord, WsLine(1), OtherRecord>>,
      <<GoodRecord, JunkLine>>,
      <<IoFailure, GoodRecord>> }

NextSteps ==
    \/ \E n \in 1..MaxBlock : sources = <<>> /\ SetBlockSize(n)
    \/ \E reader \in StepStreams : Len(sources) \in {0, 1} /\ Build(reader)
    \/ \E i \in DOMAIN sources : Begin(i)
    \/ \E i \in DOMAIN sources : Poll(i)

SpecSteps == Init /\ [][NextSteps]_vars

\* C13: two sources built from one builder over their own readers do not
\* touch each other: however their calls are interleaved, every source returns
\* what it returns when it is read alone (the same blocks, exhaustion and
\* errors, with the same counter after each call), and a step of a read() on
\* one source leaves the other's counter, buffer and reader as they are.
C13_Independent ==
    /\ [](\A i \in DOMAIN sources :
             LET s == sources[i]
                 alone == RunCalls(TryCreate(s.builder, inputs[i], s.ident_case_sensitive),
                                   Len(results[i]))
             IN  \A k \in DOMAIN results[i] :
                     /\ results[i][k].res = alone[k].res
                     /\ results[i][k].after.rows = alone[k].rows)
    /\ [][ \A i, j \in DOMAIN sources :
               (i # j /\ (Begin(i) \/ Poll(i)))
                   => Snapshot(sources'[j]) = Snapshot(sources[j]) ]_vars

\* Both sources, over different inputs, have a call in flight that has
\* decoded a row, the second source having returned an error before.
C13_Witness ==
    /\ Len(sources) = 2
    /\ inputs[1] # inputs[2]
    /\ pending[1].active /\ pending[1].rows = 1
    /\ pending[2].active /\ pending[2].rows = 1
    /\ results[1] = <<>>
    /\ results[2] # <<>> /\ results[2][1].res.kind = "err"

\* ------------------------------------------------ progress and termination
\* The reader hands over its lines and then the end of its stream, so a call
\* in flight goes on; the caller of a source keeps calling.
FairSteps ==
    /\ SpecSteps
    /\ \A i \in {1, 2} : WF_vars(i \in DOMAIN sources /\ Poll(i))
    /\ \A i \in {1, 2} : WF_vars(i \in DOMAIN sources /\ Begin(i))

\* A call on source i has returned exhaustion or an error.
Terminated(i) ==
    \E k \in DOMAIN results[i] : results[i][k].res.kind \in {"none", "err"}

\* C19: over a finite input every call returns; a call that returns a block,
\* or an error for a line, has used up at least one line; a caller that keeps
\* calling gets exhaustion or an error, after no more calls than the input has
\* lines and one more; after exhaustion at the end of the stream every later
\* call returns exhaustion.
C19_Progress ==
    /\ \A i \in {1, 2} :
          (i \in DOMAIN sources /\ pending[i].active)
              ~> (i \in DOMAIN sources /\ ~pending[i].active)
    /\ \A i \in {1, 2} : (i \in DOMAIN sources) ~> (i \in DOMAIN sources /\ Terminated(i))
    /\ [](\A i \in DOMAIN sources :
             /\ Len(results[i]) > Len(inputs[i]) => Terminated(i)
             /\ \A k \in DOMAIN results[i] :
                   LET call == results[i][k]
                   IN  /\ ( \/ call.res.kind = "batch"
                            \/ call.res.kind = "err" /\ call.res.cause \in {"json", "field"} )
                          => Len(Consumed(call)) >= 1
                       /\ (call.res = OkNone /\ call.after.reader = <<>>)
                          => \A k2 \in DOMAIN results[i] :
                                 k2 > k => results[i][k2].res = OkNone)

\* A source has returned a block, then exhaustion at the end of its stream,
\* then exhaustion again.
C19_Witness ==
    \E i \in DOMAIN sources : \E k \in DOMAIN results[i] :
        /\ k > 1 /\ k < Len(results[i])
        /\ results[i][k - 1].res.kind = "batch"
        /\ results[i][k].res = OkNone
        /\ results[i][k].after.reader = <<>>
        /\ results[i][k + 1].res = OkNone

====
